---- MODULE Spec2Model ----
(***************************************************************************)
(* A model of the freeloader OpenAI adapter: the cookie store              *)
(* (openai_adapter/cookie_manager.py) and the request translator of        *)
(* openai_adapter/adapter.py.                                              *)
(*                                                                         *)
(* Python values are modelled as follows.                                  *)
(*   str            a TLA+ string; None is the reserved string NoneVal     *)
(*   list           a sequence                                             *)
(*   dict           a sequence of [key, val] records with distinct keys,   *)
(*                  in insertion order (CPython dicts keep it)             *)
(*   a cookie       a record [name, value]                                 *)
(*   a file         a sequence of JSON tokens (strings)                    *)
(*   a path         the sequence of its components                         *)
(***************************************************************************)
EXTENDS Integers, Sequences, FiniteSets, TLC

VARIABLES
    cookie_store_path,  \* CookieManager.cookie_store_path
    cookies,            \* CookieManager.cookies, the in-memory dict
    disk,               \* what the file system holds at cookie_store_path
    last,               \* the last call on the manager and how it ended
    start,              \* the dict the concurrent callers started from
    threads,            \* each concurrent caller: its call and how far it is
    backend,            \* OpenAIAdapter.backend
    backend_url,        \* OpenAIAdapter.backend_url, parsed
    cookie_manager,     \* whether OpenAIAdapter.cookie_manager is set
    http,               \* the last request handled and what was sent for it
    relay,              \* the generator of the streaming response in progress
    url_arg,            \* the backend_url argument OpenAIAdapter was made with
    clock,              \* int(time.time())
    handlers,           \* the requests handled in parallel, one per server thread
    cli_cookies         \* the in-memory dict of a second CookieManager on the path

adapterVars ==
    <<backend, backend_url, cookie_manager, http, relay, url_arg, clock, handlers>>

vars == <<cookie_store_path, cookies, disk, last, start, threads, adapterVars,
         cli_cookies>>

-----------------------------------------------------------------------------
(* Bounds and input universes *)

\* most domains the store holds at once (add_cookies of a new domain is not
\* offered beyond it)
MaxEntries == 2

NoneVal == "<None>"

Domains == {"", "a.com", "A.com"}

\* the domains of the backend URLs below
BackendDomains == {"localhost:8080", "localhost:8081", "localhost", "a.com", "a.com:8443", ""}

\* every key a store document holds
Keys == Domains \cup BackendDomains

CookieA == [name |-> "a", value |-> "1"]
CookieB == [name |-> "b", value |-> "2"]

Cookies == {CookieA, CookieB}

\* the cookie lists handed to add_cookies
CookieLists == {<<>>, <<CookieA>>, <<CookieA, CookieB>>, <<CookieB, CookieA>>}

\* the concurrent callers of one CookieManager, and a caller outside any call
Threads == {1, 2}

Idle == [pc |-> "idle", op |-> "none", domain |-> NoneVal, arg |-> <<>>,
         src |-> "live", snap |-> <<>>, it |-> 0, n0 |-> 0, buf |-> <<>>,
         raised |-> FALSE, failed |-> FALSE]

\* Python truthiness of an Optional[str]
Truthy(x) == x # NoneVal /\ x # ""

-----------------------------------------------------------------------------
(* dict *)

EmptyDict == <<>>

DictKeys(d) == {d[i].key : i \in 1..Len(d)}

DictHas(d, k) == \E i \in 1..Len(d) : d[i].key = k

DictIndex(d, k) == CHOOSE i \in 1..Len(d) : d[i].key = k

\* d.get(k, default)
DictGet(d, k, default) == IF DictHas(d, k) THEN d[DictIndex(d, k)].val ELSE default

\* a d[k] = v that extends the list already under k instead of replacing it
DictSet_Extend(d, k, v) ==
    IF DictHas(d, k)
    THEN [i \in 1..Len(d) |->
            IF d[i].key = k THEN [key |-> k, val |-> d[i].val \o v] ELSE d[i]]
    ELSE Append(d, [key |-> k, val |-> v])

\* d[k] = v : replaces the value in place, or appends a new entry
DictSet(d, k, v) ==
    IF DictHas(d, k)
    THEN [i \in 1..Len(d) |-> IF d[i].key = k THEN [key |-> k, val |-> v] ELSE d[i]]
    ELSE Append(d, [key |-> k, val |-> v])

\* del d[k], for a key that is present
DictDel(d, k) == SelectSeq(d, LAMBDA e : e.key # k)

\* d1 == d2 on Python dicts: the same keys with the same values, in any order
DictEq(d1, d2) ==
    /\ DictKeys(d1) = DictKeys(d2)
    /\ \A k \in DictKeys(d1) : DictGet(d1, k, <<>>) = DictGet(d2, k, <<>>)

-----------------------------------------------------------------------------
(* json.dump / json.load on the store document *)

Quote(s) == "\"" \o s \o "\""

\* one cookie object, as json.dump writes it
ObjText(c) == "{\"name\": " \o Quote(c.name) \o ", \"value\": " \o Quote(c.value) \o "}"

RECURSIVE EncodeItems(_)
EncodeItems(cs) ==
    IF Len(cs) = 0 THEN <<>>
    ELSE IF Len(cs) = 1 THEN <<ObjText(cs[1])>>
    ELSE <<ObjText(cs[1]), ",">> \o EncodeItems(Tail(cs))

EncodeList(cs) == <<"[">> \o EncodeItems(cs) \o <<"]">>

RECURSIVE EncodeMembers(_)
EncodeMembers(d) ==
    IF Len(d) = 0 THEN <<>>
    ELSE LET m == <<Quote(d[1].key), ":">> \o EncodeList(d[1].val)
         IN  IF Len(d) = 1 THEN m ELSE m \o <<",">> \o EncodeMembers(Tail(d))

\* json.dump(self.cookies, f): the tokens written
JsonDump(d) == <<"{">> \o EncodeMembers(d) \o <<"}">>

IsObjTok(t) == \E c \in Cookies : ObjText(c) = t
ObjOf(t) == CHOOSE c \in Cookies : ObjText(c) = t

IsKeyTok(t) == \E k \in Keys : Quote(k) = t
KeyOf(t) == CHOOSE k \in Keys : Quote(k) = t

ParseFail == [ok |-> FALSE, val |-> <<>>, pos |-> 0]

Tok(toks, i) == IF i \in 1..Len(toks) THEN toks[i] ELSE "<eof>"

RECURSIVE ParseItems(_, _, _)
ParseItems(toks, i, acc) ==
    IF ~IsObjTok(Tok(toks, i)) THEN ParseFail
    ELSE LET acc2 == Append(acc, ObjOf(toks[i]))
         IN  IF Tok(toks, i + 1) = "]" THEN [ok |-> TRUE, val |-> acc2, pos |-> i + 2]
             ELSE IF Tok(toks, i + 1) = "," THEN ParseItems(toks, i + 2, acc2)
             ELSE ParseFail

ParseList(toks, i) ==
    IF Tok(toks, i) # "[" THEN ParseFail
    ELSE IF Tok(toks, i + 1) = "]" THEN [ok |-> TRUE, val |-> <<>>, pos |-> i + 2]
    ELSE ParseItems(toks, i + 1, <<>>)

RECURSIVE ParseMembers(_, _, _)
ParseMembers(toks, i, acc) ==
    IF ~IsKeyTok(Tok(toks, i)) \/ Tok(toks, i + 1) # ":" THEN ParseFail
    ELSE LET l == ParseList(toks, i + 2)
         IN  IF ~l.ok THEN ParseFail
             ELSE LET acc2 == DictSet(acc, KeyOf(toks[i]), l.val)
                  IN  IF Tok(toks, l.pos) = "}"
                      THEN [ok |-> TRUE, val |-> acc2, pos |-> l.pos + 1]
                      ELSE IF Tok(toks, l.pos) = ","
                      THEN ParseMembers(toks, l.pos + 1, acc2)
                      ELSE ParseFail

\* json.load(f): ok is FALSE when it raises JSONDecodeError
JsonLoad(toks) ==
    LET r == IF Tok(toks, 1) # "{" THEN ParseFail
             ELSE IF Tok(toks, 2) = "}" THEN [ok |-> TRUE, val |-> EmptyDict, pos |-> 3]
             ELSE ParseMembers(toks, 2, EmptyDict)
    IN  IF r.ok /\ r.pos = Len(toks) + 1 THEN r ELSE ParseFail

-----------------------------------------------------------------------------
(* the file system at the store path *)

Missing == [kind |-> "missing", data |-> <<>>]
Directory == [kind |-> "dir", data |-> <<>>]
File(toks) == [kind |-> "file", data |-> toks]

DefaultPath == <<"~", ".freeloader", "cookies.json">>
BarePath == <<"cookies.json">>

\* os.path.dirname
Dirname(p) == SubSeq(p, 1, Len(p) - 1)

\* documents found at start-up: written by an earlier run, or damaged
StoredDict ==
    <<[key |-> "A.com", val |-> <<CookieB, CookieA>>],
      [key |-> "", val |-> <<CookieA>>]>>

\* a document cut short, as a crash in the middle of a write leaves it
Truncated(toks) == SubSeq(toks, 1, Len(toks) - 2)

\* a document that names one key twice: json.load keeps the later value
RepeatedKey ==
    <<"{", Quote("a.com"), ":", "[", ObjText(CookieB), "]", ",",
           Quote("a.com"), ":", "[", ObjText(CookieA), "]", "}">>

InitialDisks ==
    {Missing, Directory, File(<<>>), File(JsonDump(StoredDict)),
     File(Truncated(JsonDump(StoredDict))), File(RepeatedKey)}

-----------------------------------------------------------------------------
(* OpenAIAdapter: configuration *)

\* a base URL as urllib.parse.urlparse splits it; NoUrl is None
Url(scheme, host, port) == [scheme |-> scheme, host |-> host, port |-> port]
NoUrl == Url("", "", "")

\* "http://a.com", "https://a.com:8443" and "a.com:8080", which urlparse reads
\* as scheme "a.com" with no host
UrlArgs == {NoUrl, Url("http", "a.com", ""), Url("https", "a.com", "8443"),
            Url("a.com", "", "")}

Backends == {"ai-gateway", "chatgpt-adapter"}

\* an __init__ that takes the backend's default URL whatever URL is given
ResolveUrl_Default(b, arg) ==
    IF b = "ai-gateway" THEN Url("http", "localhost", "8080")
    ELSE Url("http", "localhost", "8081")

\* __init__: the default backend URL when none is given
ResolveUrl(b, arg) ==
    IF arg = NoUrl
    THEN IF b = "ai-gateway" THEN Url("http", "localhost", "8080")
         ELSE Url("http", "localhost", "8081")
    ELSE arg

\* urlparse(url).netloc
Netloc(u) == IF u.port = "" THEN u.host ELSE u.host \o ":" \o u.port

\* _extract_domain
ExtractDomain(u) == Netloc(u)

\* requests.post raises before sending when the URL has no http(s) scheme or
\* no host
PostRaises(u) == u.scheme \notin {"http", "https"} \/ u.host = ""

\* no request handled yet. Of a request handled: its route and its body (data),
\* what went to the backend and where (sent, target, path, cookie, body), what
\* the backend answered (upstream is its status, 0 when it gave none), the exception raised
\* while handling it (fault), whether that exception left the route uncaught
\* (raised), and the response returned (status, reply)
NoExchange ==
    [route |-> "none", data |-> <<>>, sent |-> FALSE, target |-> NoUrl, path |-> "",
     cookie |-> NoneVal, body |-> <<>>, upstream |-> 0, answer |-> <<>>,
     fault |-> "none", raised |-> FALSE, status |-> 0, reply |-> [kind |-> "none"]]

\* no generator. Of a generator: its state, the request body it holds, the
\* backend's status, the lines the backend has still to send, the lines taken
\* from it so far and the frames yielded to the client; the connection to the
\* backend (conn); and of the server that runs it, how many of the frames it
\* has written to the client (delivered), whether the client is still there
\* and whether a write to it has failed (broken)
NoRelay ==
    [state |-> "none", data |-> <<>>, status |-> 0, lines |-> <<>>,
     got |-> <<>>, frames |-> <<>>, conn |-> "none", delivered |-> 0,
     client |-> "here", broken |-> FALSE]

\* the adapter while only the cookie store is exercised
AdapterAtRest ==
    /\ backend = "ai-gateway"
    /\ url_arg = NoUrl
    /\ backend_url = ResolveUrl("ai-gateway", NoUrl)
    /\ clock = 0
    /\ cli_cookies = EmptyDict
    /\ handlers = <<>>
    /\ cookie_manager = TRUE
    /\ http = NoExchange
    /\ relay = NoRelay

-----------------------------------------------------------------------------
(* CookieManager *)

\* __init__: cookie_store_path or os.path.expanduser("~/.freeloader/cookies.json")
StorePath(arg) == IF arg = <<>> THEN DefaultPath ELSE arg

\* a _load_cookies without its try/except: what open() or json.load raises
\* reaches the caller
LoadCookies_NoExcept(path, d) ==
    IF d.kind = "missing"
    THEN [value |-> EmptyDict, logged |-> FALSE, raised |-> FALSE]
    ELSE IF d.kind = "dir"
    THEN [value |-> EmptyDict, logged |-> FALSE, raised |-> TRUE]
    ELSE LET r == JsonLoad(d.data)
         IN  IF r.ok
             THEN [value |-> r.val, logged |-> FALSE, raised |-> FALSE]
             ELSE [value |-> EmptyDict, logged |-> FALSE, raised |-> TRUE]

\* a _load_cookies that logs a JSONDecodeError and raises it again
LoadCookies_Reraise(path, d) ==
    IF d.kind \in {"missing", "dir"}
    THEN [value |-> EmptyDict, logged |-> d.kind = "dir", raised |-> FALSE]
    ELSE LET r == JsonLoad(d.data)
         IN  IF r.ok
             THEN [value |-> r.val, logged |-> FALSE, raised |-> FALSE]
             ELSE [value |-> EmptyDict, logged |-> TRUE, raised |-> TRUE]

\* _load_cookies: the dict returned, whether it logged an error, whether it raised
LoadCookies(path, d) ==
    IF d.kind = "missing"
    THEN [value |-> EmptyDict, logged |-> FALSE, raised |-> FALSE]
    ELSE IF d.kind = "dir"         \* open() raises, caught by except Exception
    THEN [value |-> EmptyDict, logged |-> TRUE, raised |-> FALSE]
    ELSE LET r == JsonLoad(d.data)
         IN  IF r.ok
             THEN [value |-> r.val, logged |-> FALSE, raised |-> FALSE]
             ELSE [value |-> EmptyDict, logged |-> TRUE, raised |-> FALSE]

\* _save_cookies: the file system afterwards, whether the write failed (which
\* is logged), whether it raised
SaveCookies(path, c, d) ==
    IF Dirname(path) = <<>>        \* os.makedirs("") raises FileNotFoundError
    THEN [disk |-> d, failed |-> TRUE, raised |-> FALSE]
    ELSE IF d.kind = "dir"         \* open(path, 'w') raises IsADirectoryError
    THEN [disk |-> d, failed |-> TRUE, raised |-> FALSE]
    ELSE [disk |-> File(JsonDump(c)), failed |-> FALSE, raised |-> FALSE]

\* a get_cookies_for_domain that reads the store document again
GetCookiesForDomain_Reload(c, domain) ==
    [value |-> DictGet(LoadCookies(cookie_store_path, disk).value, domain, <<>>),
     raised |-> FALSE]

\* a get_cookies_for_domain written self.cookies[domain]: KeyError when absent
GetCookiesForDomain_Subscript(c, domain) ==
    [value |-> DictGet(c, domain, <<>>), raised |-> ~DictHas(c, domain)]

\* get_cookies_for_domain
GetCookiesForDomain(c, domain) ==
    [value |-> DictGet(c, domain, <<>>), raised |-> FALSE]

\* the record of a call: its arguments, what the domain held before it, whether
\* it raised to its caller, whether the store access inside it failed (an error
\* was logged) and what it returned
Call(op, domain, arg, prior, raised, failed, result) ==
    [op |-> op, domain |-> domain, arg |-> arg, prior |-> prior,
     raised |-> raised, failed |-> failed, result |-> result]

\* CookieManager(cookie_store_path) on the current file system
Construct ==
    LET l == LoadCookies(cookie_store_path, disk)
    IN  /\ cookies' = l.value
        /\ last' = Call("init", NoneVal, <<>>, <<>>, l.raised, l.logged, <<>>)
        /\ UNCHANGED <<adapterVars, cookie_store_path, cli_cookies, disk, start, threads>>

AddCookies(domain, cs) ==
    LET c == DictSet(cookies, domain, cs)
        s == SaveCookies(cookie_store_path, c, disk)
    IN  /\ cookies' = c
        /\ disk' = s.disk
        /\ last' = Call("add", domain, cs, DictGet(cookies, domain, <<>>),
                        s.raised, s.failed, <<>>)
        /\ UNCHANGED <<adapterVars, cookie_store_path, cli_cookies, start, threads>>

ClearCookies(domain) ==
    LET c == IF Truthy(domain)
             THEN IF DictHas(cookies, domain) THEN DictDel(cookies, domain) ELSE cookies
             ELSE EmptyDict
        s == SaveCookies(cookie_store_path, c, disk)
    IN  /\ cookies' = c
        /\ disk' = s.disk
        /\ last' = Call("clear", domain, <<>>, DictGet(cookies, domain, <<>>),
                        s.raised, s.failed, <<>>)
        /\ UNCHANGED <<adapterVars, cookie_store_path, cli_cookies, start, threads>>

GetCookies(domain) ==
    LET g == GetCookiesForDomain(cookies, domain)
    IN  /\ last' = Call("get", domain, <<>>, <<>>, g.raised, FALSE, g.value)
        /\ UNCHANGED <<adapterVars, cookie_store_path, cli_cookies, cookies, disk, start, threads>>

Init ==
    /\ cookie_store_path \in {StorePath(<<>>), StorePath(BarePath)}
    /\ disk \in InitialDisks
    /\ cookies = LoadCookies(cookie_store_path, disk).value
    /\ last = Call("init", NoneVal, <<>>, <<>>,
                   LoadCookies(cookie_store_path, disk).raised,
                   LoadCookies(cookie_store_path, disk).logged, <<>>)
    /\ start = cookies
    /\ threads = [t \in Threads |-> Idle]
    /\ AdapterAtRest

Next ==
    \/ Construct
    \/ \E d \in Domains, cs \in CookieLists :
          /\ DictHas(cookies, d) \/ Len(cookies) < MaxEntries
          /\ AddCookies(d, cs)
    \/ \E d \in Domains \cup {NoneVal} : ClearCookies(d)
    \/ \E d \in Domains : GetCookies(d)

Spec == Init /\ [][Next]_vars

-----------------------------------------------------------------------------
(* CookieManager.import_from_browser, with the extraction of                 *)
(* freeloader/browser_cookies.py or of a BrokeDevBridge. Of an extracted     *)
(* cookie the model keeps the name and the value.                            *)

Browsers == {"firefox", "Chrome", "opera"}

\* browser.lower()
Lower(browser) == IF browser = "Chrome" THEN "chrome" ELSE browser

\* the domains cookies are imported for
ImportDomains == {"", "a.com", "c.net"}

\* the rows of a browser's cookie database: the host and the cookie of each
BrowserRows ==
    <<[host |-> ".a.com", cookie |-> CookieA], [host |-> "b.org", cookie |-> CookieB]>>

\* host LIKE '%domain%', domain in cookie["Domain"]
Contains(host, domain) == domain = "" \/ (host = ".a.com" /\ domain = "a.com")

\* what an extraction finds on the machine: whether freeloader.browser_cookies
\* can be imported, whether the browser's profile and its cookie file are
\* there, whether the file (or the output of the extraction script) can be
\* read, the rows it holds and the exit code of the bridge's script
Env(module, profile, file, readable, rows, returncode) ==
    [module |-> module, profile |-> profile, file |-> file, readable |-> readable,
     rows |-> rows, returncode |-> returncode]

BrowserEnvs ==
    { Env(TRUE, TRUE, TRUE, TRUE, BrowserRows, 0),
      Env(TRUE, TRUE, TRUE, TRUE, <<>>, 0),
      Env(FALSE, TRUE, TRUE, TRUE, BrowserRows, 0),
      Env(TRUE, FALSE, TRUE, TRUE, BrowserRows, 0),
      Env(TRUE, TRUE, FALSE, TRUE, BrowserRows, 0),
      Env(TRUE, TRUE, TRUE, FALSE, BrowserRows, 0),
      Env(TRUE, TRUE, TRUE, TRUE, BrowserRows, 1) }

\* the cookies of the rows whose host matches the domain
RECURSIVE Matching(_, _)
Matching(rows, domain) ==
    IF rows = <<>> THEN <<>>
    ELSE (IF Contains(Head(rows).host, domain) THEN <<Head(rows).cookie>> ELSE <<>>)
            \o Matching(Tail(rows), domain)

\* extract_firefox_cookies, extract_chrome_cookies, extract_edge_cookies,
\* extract_safari_cookies: [] when the profile or the file is not found and
\* when reading it raises
ExtractBrowserCookies(domain, env) ==
    IF ~env.profile THEN <<>>
    ELSE IF ~env.file THEN <<>>
    ELSE IF ~env.readable THEN <<>>
    ELSE Matching(env.rows, domain)

\* browser_cookies.extract_cookies
ExtractCookies(browser, domain, env) ==
    IF Lower(browser) \in {"firefox", "chrome", "edge", "safari"}
    THEN ExtractBrowserCookies(domain, env)
    ELSE <<>>

\* BrokeDevBridge.extract_cookies: the output of its script, [] when the
\* script fails or its output is not JSON
BridgeExtractCookies(browser, domain, env) ==
    IF env.returncode # 0 THEN <<>>
    ELSE IF ~env.readable THEN <<>>
    ELSE ExtractCookies(browser, domain, env)

\* the try block of import_from_browser up to `if cookies:`: the cookies
\* extracted, or the ImportError of the import statement
Extracted(browser, domain, bridge, env) ==
    IF bridge THEN [value |-> BridgeExtractCookies(browser, domain, env), raised |-> FALSE]
    ELSE IF ~env.module THEN [value |-> <<>>, raised |-> TRUE]
    ELSE [value |-> ExtractCookies(browser, domain, env), raised |-> FALSE]

\* an import_from_browser without its except clauses
ImportResult_NoExcept(r) ==
    [value |-> r.value, raised |-> r.raised, stored |-> ~r.raised /\ r.value # <<>>]

\* an import_from_browser that calls add_cookies whatever was extracted
ImportResult_StoreAlways(r) ==
    [value |-> IF r.raised THEN <<>> ELSE r.value,
     raised |-> FALSE,
     stored |-> ~r.raised]

\* import_from_browser after the extraction r: what it returns, whether it
\* raises, whether it has called add_cookies
ImportResult(r) ==
    [value |-> IF r.raised THEN <<>> ELSE r.value,
     raised |-> FALSE,
     stored |-> ~r.raised /\ r.value # <<>>]

ImportFromBrowser(browser, domain, bridge, env) ==
    LET i == ImportResult(Extracted(browser, domain, bridge, env))
        c == IF i.stored THEN DictSet(cookies, domain, i.value) ELSE cookies
        s == IF i.stored THEN SaveCookies(cookie_store_path, c, disk)
             ELSE [disk |-> disk, failed |-> FALSE, raised |-> FALSE]
    IN  /\ cookies' = c
        /\ disk' = s.disk
        /\ last' = Call("import", domain,
                        [browser |-> browser, bridge |-> bridge, env |-> env],
                        DictGet(cookies, domain, <<>>),
                        i.raised \/ s.raised, s.failed, i.value)
        /\ UNCHANGED <<adapterVars, cookie_store_path, cli_cookies, start, threads>>

ImportInit ==
    /\ cookie_store_path \in {StorePath(<<>>), StorePath(BarePath)}
    /\ disk \in {Missing, File(JsonDump(StoredDict))}
    /\ cookies = LoadCookies(cookie_store_path, disk).value
    /\ last = Call("init", NoneVal, <<>>, <<>>, FALSE, FALSE, <<>>)
    /\ start = cookies
    /\ threads = [t \in Threads |-> Idle]
    /\ AdapterAtRest

ImportNext ==
    \/ \E browser \in Browsers, domain \in ImportDomains, bridge \in BOOLEAN,
          env \in BrowserEnvs : ImportFromBrowser(browser, domain, bridge, env)
    \/ \E d \in {NoneVal, "a.com"} : ClearCookies(d)

SpecImport == ImportInit /\ [][ImportNext]_vars

-----------------------------------------------------------------------------
(* Two CookieManagers on one store path: the server's (start_server) and     *)
(* that of a command run meanwhile (import_cookies). Each holds a dict of    *)
(* its own, cookies and cli_cookies.                                         *)

\* the domains and the cookie lists of the calls on the two managers
CliDomains == {"a.com", "A.com"}
CliLists == {<<CookieA>>, <<CookieB>>}

\* CookieManager(cookie_store_path) in the command
CliConstruct ==
    LET l == LoadCookies(cookie_store_path, disk)
    IN  /\ cli_cookies' = l.value
        /\ last' = Call("cli-init", NoneVal, <<>>, <<>>, l.raised, l.logged, <<>>)
        /\ UNCHANGED <<adapterVars, cookie_store_path, cookies, disk, start, threads>>

\* add_cookies on the command's manager
CliAddCookies(domain, cs) ==
    LET c == DictSet(cli_cookies, domain, cs)
        s == SaveCookies(cookie_store_path, c, disk)
    IN  /\ cli_cookies' = c
        /\ disk' = s.disk
        /\ last' = Call("cli-add", domain, cs, DictGet(cli_cookies, domain, <<>>),
                        s.raised, s.failed, <<>>)
        /\ UNCHANGED <<adapterVars, cookie_store_path, cookies, start, threads>>

\* clear_cookies on the command's manager
CliClearCookies(domain) ==
    LET c == IF Truthy(domain)
             THEN IF DictHas(cli_cookies, domain) THEN DictDel(cli_cookies, domain)
                  ELSE cli_cookies
             ELSE EmptyDict
        s == SaveCookies(cookie_store_path, c, disk)
    IN  /\ cli_cookies' = c
        /\ disk' = s.disk
        /\ last' = Call("cli-clear", domain, <<>>, DictGet(cli_cookies, domain, <<>>),
                        s.raised, s.failed, <<>>)
        /\ UNCHANGED <<adapterVars, cookie_store_path, cookies, start, threads>>

\* get_cookies_for_domain on the command's manager
CliGetCookies(domain) ==
    LET g == GetCookiesForDomain(cli_cookies, domain)
    IN  /\ last' = Call("cli-get", domain, <<>>, <<>>, g.raised, FALSE, g.value)
        /\ UNCHANGED <<adapterVars, cookie_store_path, cookies, cli_cookies, disk,
                       start, threads>>

\* both managers have been constructed on the document found
CliInit ==
    /\ cookie_store_path = StorePath(<<>>)
    /\ disk \in {Missing, File(JsonDump(StoredDict))}
    /\ cookies = LoadCookies(cookie_store_path, disk).value
    /\ last = Call("init", NoneVal, <<>>, <<>>, FALSE, FALSE, <<>>)
    /\ start = cookies
    /\ threads = [t \in Threads |-> Idle]
    /\ backend = "ai-gateway"
    /\ url_arg = NoUrl
    /\ backend_url = ResolveUrl("ai-gateway", NoUrl)
    /\ clock = 0
    /\ handlers = <<>>
    /\ cookie_manager = TRUE
    /\ http = NoExchange
    /\ relay = NoRelay
    /\ cli_cookies = cookies

CliNext ==
    \/ CliConstruct
    \/ \E d \in CliDomains, cs \in CliLists : AddCookies(d, cs)
    \/ \E d \in CliDomains \cup {NoneVal} : ClearCookies(d)
    \/ \E d \in CliDomains : GetCookies(d)
    \/ \E d \in CliDomains, cs \in CliLists : CliAddCookies(d, cs)
    \/ \E d \in CliDomains \cup {NoneVal} : CliClearCookies(d)
    \/ \E d \in CliDomains : CliGetCookies(d)

SpecCli == CliInit /\ [][CliNext]_vars

-----------------------------------------------------------------------------
(* Two callers of one CookieManager in one process (the server is threaded). *)
(* A caller is switched out between statements and between the chunks        *)
(* json.dump writes; what it wrote reaches the file when its handle is       *)
(* closed (the documents are smaller than the handle's buffer).              *)

\* the dict object a caller's json.dump iterates: self.cookies as long as no
\* other caller has rebound the attribute, the object it was before otherwise
Dumped(t) == IF threads[t].src = "live" THEN cookies ELSE threads[t].snap

\* callers whose json.dump holds the object self.cookies now names
Dumping(t) == {u \in Threads \ {t} : threads[u].pc = "iter" /\ threads[u].src = "live"}

\* a write of buf at offset 0 of a file holding old
Overlay(buf, old) == buf \o SubSeq(old, Len(buf) + 1, Len(old))

\* add_cookies / clear_cookies is entered
Enter(t) ==
    /\ threads[t].pc = "idle"
    /\ \/ \E d \in Domains, cs \in CookieLists :
            threads' = [threads EXCEPT ![t] =
                [@ EXCEPT !.pc = "assign", !.op = "add", !.domain = d, !.arg = cs]]
       \/ \E d \in Domains \cup {NoneVal} :
            threads' = [threads EXCEPT ![t] =
                [@ EXCEPT !.pc = "test", !.op = "clear", !.domain = d]]
    /\ UNCHANGED <<adapterVars, cookie_store_path, cli_cookies, cookies, disk, last, start>>

\* add_cookies: self.cookies[domain] = cookies
Assign(t) ==
    /\ threads[t].pc = "assign"
    /\ cookies' = DictSet(cookies, threads[t].domain, threads[t].arg)
    /\ threads' = [threads EXCEPT ![t].pc = "makedirs"]
    /\ UNCHANGED <<adapterVars, cookie_store_path, cli_cookies, disk, last, start>>

\* clear_cookies: if domain: if domain in self.cookies: ... else: self.cookies = {}
Test(t) ==
    /\ threads[t].pc = "test"
    /\ IF ~Truthy(threads[t].domain)
       THEN /\ cookies' = EmptyDict
            /\ threads' = [u \in Threads |->
                   IF u = t THEN [threads[u] EXCEPT !.pc = "makedirs"]
                   ELSE IF u \in Dumping(t)
                   THEN [threads[u] EXCEPT !.src = "old", !.snap = cookies]
                   ELSE threads[u]]
       ELSE /\ threads' = [threads EXCEPT ![t].pc =
                   IF DictHas(cookies, threads[t].domain) THEN "del" ELSE "makedirs"]
            /\ UNCHANGED cookies
    /\ UNCHANGED <<adapterVars, cookie_store_path, cli_cookies, disk, last, start>>

\* clear_cookies: del self.cookies[domain]; KeyError when the key has gone
Del(t) ==
    /\ threads[t].pc = "del"
    /\ IF DictHas(cookies, threads[t].domain)
       THEN /\ cookies' = DictDel(cookies, threads[t].domain)
            /\ threads' = [threads EXCEPT ![t].pc = "makedirs"]
       ELSE /\ threads' = [threads EXCEPT ![t] = [@ EXCEPT !.pc = "done", !.raised = TRUE]]
            /\ UNCHANGED cookies
    /\ UNCHANGED <<adapterVars, cookie_store_path, cli_cookies, disk, last, start>>

\* _save_cookies: os.makedirs(os.path.dirname(path), exist_ok=True)
Makedirs(t) ==
    /\ threads[t].pc = "makedirs"
    /\ threads' = [threads EXCEPT ![t] =
           IF Dirname(cookie_store_path) = <<>>
           THEN [@ EXCEPT !.pc = "done", !.failed = TRUE]
           ELSE [@ EXCEPT !.pc = "open"]]
    /\ UNCHANGED <<adapterVars, cookie_store_path, cli_cookies, cookies, disk, last, start>>

\* _save_cookies: open(path, 'w') creates the file or cuts it to length 0
Open(t) ==
    /\ threads[t].pc = "open"
    /\ IF disk.kind = "dir"
       THEN /\ threads' = [threads EXCEPT ![t] = [@ EXCEPT !.pc = "done", !.failed = TRUE]]
            /\ UNCHANGED disk
       ELSE /\ threads' = [threads EXCEPT ![t] = [@ EXCEPT !.pc = "dump", !.buf = <<>>]]
            /\ disk' = File(<<>>)
    /\ UNCHANGED <<adapterVars, cookie_store_path, cli_cookies, cookies, last, start>>

\* json.dump(self.cookies, f) starts: the argument is evaluated, '{' written
\* ('{}' at once for an empty dict) and the iteration over the items set up
Dump(t) ==
    /\ threads[t].pc = "dump"
    /\ threads' = [threads EXCEPT ![t] =
           IF cookies = EmptyDict
           THEN [@ EXCEPT !.pc = "close", !.buf = <<"{", "}">>]
           ELSE [@ EXCEPT !.pc = "iter", !.src = "live", !.it = 0,
                          !.n0 = Len(cookies), !.buf = <<"{">>]]
    /\ UNCHANGED <<adapterVars, cookie_store_path, cli_cookies, cookies, disk, last, start>>

\* json.dump: the next item of the dict, or its end; RuntimeError ("dictionary
\* changed size during iteration") when another caller added or deleted a key
Iter(t) ==
    /\ threads[t].pc = "iter"
    /\ LET th == threads[t]
           d == Dumped(t)
       IN  threads' = [threads EXCEPT ![t] =
               IF Len(d) # th.n0
               THEN [@ EXCEPT !.pc = "close", !.failed = TRUE]
               ELSE IF th.it = th.n0
               THEN [@ EXCEPT !.pc = "close", !.buf = th.buf \o <<"}">>]
               ELSE [@ EXCEPT !.it = th.it + 1,
                              !.buf = th.buf
                                  \o (IF th.it > 0 THEN <<",">> ELSE <<>>)
                                  \o <<Quote(d[th.it + 1].key), ":">>
                                  \o EncodeList(d[th.it + 1].val)]]
    /\ UNCHANGED <<adapterVars, cookie_store_path, cli_cookies, cookies, disk, last, start>>

\* the with block is left: the handle's buffer is written at its offset 0
Close(t) ==
    /\ threads[t].pc = "close"
    /\ disk' = File(Overlay(threads[t].buf, disk.data))
    /\ threads' = [threads EXCEPT ![t].pc = "done"]
    /\ UNCHANGED <<adapterVars, cookie_store_path, cli_cookies, cookies, last, start>>

ConcInit ==
    /\ cookie_store_path = StorePath(<<>>)
    /\ disk \in {Missing, File(JsonDump(StoredDict))}
    /\ cookies = LoadCookies(cookie_store_path, disk).value
    /\ last = Call("init", NoneVal, <<>>, <<>>, FALSE, FALSE, <<>>)
    /\ start = cookies
    /\ threads = [t \in Threads |-> Idle]
    /\ AdapterAtRest

ConcNext ==
    \E t \in Threads :
        \/ Enter(t)
        \/ Assign(t)
        \/ Test(t)
        \/ Del(t)
        \/ Makedirs(t)
        \/ Open(t)
        \/ Dump(t)
        \/ Iter(t)
        \/ Close(t)

SpecConc == ConcInit /\ [][ConcNext]_vars

-----------------------------------------------------------------------------
(* OpenAIAdapter: the request handlers *)

Models == {"gpt-4", "claude-3-opus", "claude-3", "my-model"}

\* request.json of a chat request: a dict with or without "model" and "stream"
ChatData ==
    {[messages |-> "hi"],
     [messages |-> "hi", stream |-> TRUE],
     [model |-> "gpt-4", messages |-> "hi", temperature |-> 1, max_tokens |-> 16]}
        \cup {[model |-> m, messages |-> "hi"] : m \in Models}
        \cup {[model |-> m, messages |-> "hi", stream |-> b] :
                 m \in {"gpt-4", "claude-3-opus"}, b \in BOOLEAN}

EmbeddingData == {[input |-> "text"], [model |-> "my-model", input |-> "text"]}

\* the status the backend answers with; 0 stands for no answer at all (the
\* connection is refused and requests.post raises ConnectionError)
BackendStatuses == {0, 200, 201, 503}

\* the names and the values of the fields of a backend's JSON body, the names
\* in sorted order
BodyKeys == <<"id", "model", "object">>
BodyVals == {"x", "gpt-4", "chat.completion"}

\* the bodies the backend answers with, as JSON tokens: a chat body, a body
\* cut short and a body that is not JSON
BackendBodies ==
    { <<"{", Quote("object"), ":", Quote("chat.completion"), ",",
             Quote("id"), ":", Quote("x"), ",", Quote("model"), ":", Quote("gpt-4"), "}">>,
      <<"{", Quote("id"), ":">>,
      <<"<html>">> }

\* the payloads of the server-sent events of a chat stream
Payloads ==
    {"{\"choices\":[{\"delta\":{\"content\":\"Hi\"}}]}", "{\"choices\":[]}", "[DONE]"}

\* the lines response.iter_lines() yields for a streamed answer: events
\* separated by blank lines, with or without a closing [DONE], with a comment
\* line, or nothing
BackendStreams ==
    { <<>>,
      <<"data: {\"choices\":[{\"delta\":{\"content\":\"Hi\"}}]}", "", "data: [DONE]", "">>,
      <<"data: {\"choices\":[]}">>,
      <<": keep-alive", "", "data: [DONE]", "">> }

\* data.get(f, default)
Get(data, f, default) == IF f \in DOMAIN data THEN data[f] ELSE default

\* data[f] = v
Put(data, f, v) == [x \in DOMAIN data \cup {f} |-> IF x = f THEN v ELSE data[x]]

\* a '; '.join that separates the pairs with ';' alone
RECURSIVE JoinCookies_NoSpace(_)
JoinCookies_NoSpace(cs) ==
    IF Len(cs) = 1 THEN cs[1].name \o "=" \o cs[1].value
    ELSE cs[1].name \o "=" \o cs[1].value \o ";" \o JoinCookies_NoSpace(Tail(cs))

\* '; '.join([f"{c['name']}={c['value']}" for c in cookies]), cookies non-empty
RECURSIVE JoinCookies(_)
JoinCookies(cs) ==
    IF Len(cs) = 1 THEN cs[1].name \o "=" \o cs[1].value
    ELSE cs[1].name \o "=" \o cs[1].value \o "; " \o JoinCookies(Tail(cs))

\* a header that is set, to the empty string, when the store has no cookies
CookieHeader_Blank ==
    IF cookie_manager
    THEN LET cs == GetCookiesForDomain(cookies, ExtractDomain(backend_url)).value
         IN  IF cs # <<>> THEN JoinCookies(cs) ELSE ""
    ELSE NoneVal

\* headers['Cookie'] of _process_with_ai_gateway, _process_with_chatgpt_adapter
\* and _process_embedding_request; NoneVal when the header is not set
CookieHeader ==
    IF cookie_manager
    THEN LET cs == GetCookiesForDomain(cookies, ExtractDomain(backend_url)).value
         IN  IF cs # <<>> THEN JoinCookies(cs) ELSE NoneVal
    ELSE NoneVal

\* headers['Cookie'] of _stream_response
StreamCookieHeader ==
    IF cookie_manager
    THEN LET domain == ExtractDomain(backend_url)
             cs == IF domain # "" THEN GetCookiesForDomain(cookies, domain).value
                   ELSE <<>>
         IN  IF cs # <<>> THEN JoinCookies(cs) ELSE NoneVal
    ELSE NoneVal

\* response.json() on a body: ok is FALSE when it raises
RECURSIVE ParseFields(_, _, _)
ParseFields(toks, i, acc) ==
    IF \/ \A k \in 1..Len(BodyKeys) : Quote(BodyKeys[k]) # Tok(toks, i)
       \/ Tok(toks, i + 1) # ":"
       \/ \A v \in BodyVals : Quote(v) # Tok(toks, i + 2)
    THEN ParseFail
    ELSE LET key == BodyKeys[CHOOSE k \in 1..Len(BodyKeys) : Quote(BodyKeys[k]) = toks[i]]
             val == CHOOSE v \in BodyVals : Quote(v) = toks[i + 2]
             acc2 == DictSet(acc, key, val)
         IN  IF Tok(toks, i + 3) = "}" THEN [ok |-> TRUE, val |-> acc2, pos |-> i + 4]
             ELSE IF Tok(toks, i + 3) = "," THEN ParseFields(toks, i + 4, acc2)
             ELSE ParseFail

ResponseJson(toks) ==
    LET r == IF Tok(toks, 1) # "{" THEN ParseFail
             ELSE IF Tok(toks, 2) = "}" THEN [ok |-> TRUE, val |-> EmptyDict, pos |-> 3]
             ELSE ParseFields(toks, 2, EmptyDict)
    IN  IF r.ok /\ r.pos = Len(toks) + 1 THEN r ELSE ParseFail

\* the fields of d whose names are ks[i..], as JSON tokens
RECURSIVE EncodeFields(_, _, _, _)
EncodeFields(d, ks, i, first) ==
    IF i > Len(ks) THEN <<>>
    ELSE IF ~DictHas(d, ks[i]) THEN EncodeFields(d, ks, i + 1, first)
    ELSE (IF first THEN <<>> ELSE <<",">>)
            \o <<Quote(ks[i]), ":", Quote(DictGet(d, ks[i], ""))>>
            \o EncodeFields(d, ks, i + 1, FALSE)

\* a jsonify that leaves the "id" of the body out
Jsonify_NoId(d) == <<"{">> \o EncodeFields(DictDel(d, "id"), BodyKeys, 1, TRUE) \o <<"}">>

\* jsonify(response): the dict as JSON, its keys sorted (Flask's default)
Jsonify(d) == <<"{">> \o EncodeFields(d, BodyKeys, 1, TRUE) \o <<"}">>

\* model_mapping of _map_model_for_chatgpt_adapter
ModelMapping ==
    <<[key |-> "gpt-3.5-turbo", val |-> "gpt-3.5-turbo"],
      [key |-> "gpt-4", val |-> "gpt-4"],
      [key |-> "claude-3-opus", val |-> "claude-3"],
      [key |-> "claude-3-sonnet", val |-> "claude-3"]>>

\* a mapping that sends a name to another name of the table
MapModelForChatgptAdapter_Chained(m) ==
    IF m = "gpt-4" THEN "claude-3-opus" ELSE DictGet(ModelMapping, m, m)

\* _map_model_for_chatgpt_adapter: model_mapping.get(model, model)
MapModelForChatgptAdapter(m) == DictGet(ModelMapping, m, m)

\* the outcome of a backend call: what was sent, what the backend answered,
\* the exception raised ("none" when the call returned), its message, and the
\* value returned
Outcome(sent, path, cookie, body, upstream, answer, fault, message, value) ==
    [sent |-> sent, path |-> path, cookie |-> cookie, body |-> body,
     upstream |-> upstream, answer |-> answer,
     fault |-> fault, message |-> message, value |-> value]

\* requests.post(...) and the status test and response.json() that follow it
PostJson(path, cookie, body, st, answer) ==
    IF PostRaises(backend_url)
    THEN Outcome(FALSE, path, cookie, body, 0, <<>>, "url", "Invalid URL", <<>>)
    ELSE IF st = 0
    THEN Outcome(FALSE, path, cookie, body, 0, <<>>, "connect", "Connection refused", <<>>)
    ELSE IF st # 200
    THEN Outcome(TRUE, path, cookie, body, st, answer, "status",
                 "Backend error: " \o ToString(st), <<>>)
    ELSE IF ~ResponseJson(answer).ok
    THEN Outcome(TRUE, path, cookie, body, st, answer, "json", "Expecting value", <<>>)
    ELSE Outcome(TRUE, path, cookie, body, st, answer, "none", "",
                 ResponseJson(answer).val)

\* a _process_with_ai_gateway that maps the model as the other backend does
ProcessWithAiGateway_Mapped(data, st, answer) ==
    PostJson("/v1/chat/completions", CookieHeader,
             Put(data, "model",
                 MapModelForChatgptAdapter(Get(data, "model", "gpt-3.5-turbo"))),
             st, answer)

ProcessWithAiGateway(data, st, answer) ==
    PostJson("/v1/chat/completions", CookieHeader, data, st, answer)

ProcessWithChatgptAdapter(model, data, st, answer) ==
    PostJson("/v1/chat/completions", CookieHeader,
             Put(data, "model", MapModelForChatgptAdapter(model)), st, answer)

ProcessCompletionRequest(data, st, answer) ==
    LET model == Get(data, "model", "gpt-3.5-turbo")
    IN  IF backend = "ai-gateway" THEN ProcessWithAiGateway(data, st, answer)
        ELSE ProcessWithChatgptAdapter(model, data, st, answer)

EmbeddingDim == 1536

\* a _process_embedding_request that posts to the backend whatever it is
ProcessEmbeddingRequest_Forward(data, st, answer) ==
    PostJson("/v1/embeddings", CookieHeader, data, st, answer)

\* [x] * n
Repeat(x, n) == [i \in 1..n |-> x]

ProcessEmbeddingRequest(data, st, answer) ==
    IF backend = "ai-gateway"
    THEN PostJson("/v1/embeddings", CookieHeader, data, st, answer)
    ELSE Outcome(FALSE, "", NoneVal, <<>>, 0, <<>>, "none", "",
                 [object |-> "list",
                  data |-> <<[object |-> "embedding",
                              embedding |-> Repeat(0, EmbeddingDim),
                              index |-> 0]>>,
                  model |-> Get(data, "model", "text-embedding-ada-002"),
                  usage |-> [prompt_tokens |-> 0, total_tokens |-> 0]])

\* the except branch of a route: the error envelope with status 500
Envelope(message) ==
    [kind |-> "error", message |-> message, type |-> "server_error", code |-> 500]

\* an except branch that answers with the status of the backend
Exchange_Upstream(route, data, o) ==
    [route |-> route, data |-> data, sent |-> o.sent,
     target |-> IF o.path # "" THEN backend_url ELSE NoUrl, path |-> o.path,
     cookie |-> o.cookie, body |-> o.body, upstream |-> o.upstream,
     answer |-> o.answer, fault |-> o.fault, raised |-> FALSE,
     status |-> IF o.fault = "status" THEN o.upstream
                ELSE IF o.fault # "none" THEN 500 ELSE 200,
     reply |-> IF o.fault # "none" THEN Envelope(o.message)
               ELSE IF o.path = "" THEN [kind |-> "json", value |-> o.value]
               ELSE [kind |-> "json", text |-> Jsonify(o.value)]]

\* what a route returns for the outcome o of its try block: jsonify(response),
\* or the envelope and 500 from its except branch
Exchange(route, data, o) ==
    [route |-> route, data |-> data, sent |-> o.sent,
     target |-> IF o.path # "" THEN backend_url ELSE NoUrl, path |-> o.path,
     cookie |-> o.cookie, body |-> o.body, upstream |-> o.upstream,
     answer |-> o.answer, fault |-> o.fault, raised |-> FALSE,
     status |-> IF o.fault # "none" THEN 500 ELSE 200,
     reply |-> IF o.fault # "none" THEN Envelope(o.message)
               ELSE IF o.path = "" THEN [kind |-> "json", value |-> o.value]
               ELSE [kind |-> "json", text |-> Jsonify(o.value)]]

RelayIdle == relay.state \in {"none", "ended", "raised", "cancelled"}

\* Response(stream_with_context(...), content_type='text/event-stream'): the
\* response of the route on the streaming path, with status 200
StreamAccepted(data) ==
    [NoExchange EXCEPT !.route = "chat", !.data = data, !.status = 200,
                       !.reply = [kind |-> "event-stream"]]

\* self._stream_response(data): the generator, not yet run
Generator(data) == [NoRelay EXCEPT !.state = "created", !.data = data]

\* a test that takes the streaming path whenever the request names 'stream'
WantsStream_Present(data) == "stream" \in DOMAIN data

\* stream = data.get('stream', False)
WantsStream(data) == Get(data, "stream", FALSE)

\* a chat handler that stores a cookie for the backend's domain while serving
ChatCompletions_Storing(data, st, answer) ==
    /\ RelayIdle
    /\ IF WantsStream(data)
       THEN /\ http' = StreamAccepted(data)
            /\ relay' = Generator(data)
       ELSE /\ http' = Exchange("chat", data, ProcessCompletionRequest(data, st, answer))
            /\ relay' = NoRelay
    /\ cookies' = DictSet(cookies, ExtractDomain(backend_url), <<CookieA>>)
    /\ disk' = SaveCookies(cookie_store_path, cookies', disk).disk
    /\ UNCHANGED <<cookie_store_path, cli_cookies, last, start, threads,
                   backend, backend_url, cookie_manager, url_arg, clock, handlers>>

\* POST /v1/chat/completions
ChatCompletions(data, st, answer) ==
    /\ RelayIdle
    /\ IF WantsStream(data)
       THEN /\ http' = StreamAccepted(data)
            /\ relay' = Generator(data)
       ELSE /\ http' = Exchange("chat", data, ProcessCompletionRequest(data, st, answer))
            /\ relay' = NoRelay
    /\ UNCHANGED <<cookie_store_path, cli_cookies, cookies, disk, last, start, threads,
                   backend, backend_url, cookie_manager, url_arg, clock, handlers>>

\* POST /v1/embeddings
Embeddings(data, st, answer) ==
    /\ RelayIdle
    /\ http' = Exchange("embeddings", data, ProcessEmbeddingRequest(data, st, answer))
    /\ relay' = NoRelay
    /\ UNCHANGED <<cookie_store_path, cli_cookies, cookies, disk, last, start, threads,
                   backend, backend_url, cookie_manager, url_arg, clock, handlers>>

\* the frame _stream_response yields when the backend's status is not 200
ErrorFrame(st) ==
    "data: {\"error\": {\"message\": \"Backend error: " \o ToString(st) \o "\"}}\n\n"

\* a generator that goes on to the backend's lines whatever its status is
Opened_Relaying(r, st, lines) ==
    IF PostRaises(backend_url) \/ st = 0
    THEN [r EXCEPT !.state = "raised"]
    ELSE IF st # 200
    THEN [r EXCEPT !.state = "relaying", !.status = st, !.lines = lines,
                   !.conn = "open", !.frames = <<ErrorFrame(st)>>]
    ELSE [r EXCEPT !.state = "relaying", !.status = st, !.lines = lines,
                   !.conn = "open"]

\* the generator r after requests.post and the status test: the exception
\* leaves it, or it has yielded the error frame, or it is at the for loop
Opened(r, st, lines) ==
    IF PostRaises(backend_url) \/ st = 0
    THEN [r EXCEPT !.state = "raised"]
    ELSE IF st # 200
    THEN [r EXCEPT !.state = "error", !.status = st, !.conn = "open",
                   !.frames = <<ErrorFrame(st)>>]
    ELSE [r EXCEPT !.state = "relaying", !.status = st, !.lines = lines,
                   !.conn = "open"]

\* the body _stream_response posts
StreamRequest(data) ==
    LET model == Get(data, "model", "gpt-3.5-turbo")
        streamed == Put(data, "stream", TRUE)
    IN  IF backend = "ai-gateway" THEN streamed
        ELSE Put(streamed, "model", MapModelForChatgptAdapter(model))

\* _stream_response up to its first yield: the request is prepared and posted
StreamOpen(st, lines) ==
    /\ relay.state = "created"
    /\ LET body == StreamRequest(relay.data)
       IN  /\ http' = [http EXCEPT
                          !.sent = ~PostRaises(backend_url) /\ st # 0,
                          !.target = backend_url,
                          !.path = "/v1/chat/completions",
                          !.cookie = StreamCookieHeader,
                          !.body = body,
                          !.fault = IF PostRaises(backend_url) THEN "url"
                                    ELSE IF st = 0 THEN "connect" ELSE "none",
                          !.raised = PostRaises(backend_url) \/ st = 0]
           /\ relay' = Opened(relay, st, lines)
    /\ UNCHANGED <<cookie_store_path, cli_cookies, cookies, disk, last, start, threads,
                   backend, backend_url, cookie_manager, url_arg, clock, handlers>>

\* a relay that puts a line at the end of the frame before it
Relayed_Coalesced(frames, line) ==
    IF line = "" THEN frames
    ELSE IF frames = <<>> THEN <<line \o "\n\n">>
    ELSE [frames EXCEPT ![Len(frames)] = @ \o line \o "\n\n"]

\* if line: yield f"{line.decode('utf-8')}\n\n"
Relayed(frames, line) ==
    IF line # "" THEN Append(frames, line \o "\n\n") ELSE frames

\* the generator is suspended at a yield: the server has the frame and has
\* not yet written it to the client
Pending == Len(relay.frames) > relay.delivered

\* a relay that takes the backend's next line while the frame before it is
\* still to be written
StreamLine_ReadAhead ==
    /\ relay.state = "relaying"
    /\ relay.lines # <<>>
    /\ ~relay.broken
    /\ relay' = [relay EXCEPT
                    !.lines = Tail(relay.lines),
                    !.got = Append(relay.got, Head(relay.lines)),
                    !.frames = Relayed(relay.frames, Head(relay.lines))]
    /\ UNCHANGED <<cookie_store_path, cli_cookies, cookies, disk, last, start, threads,
                   backend, backend_url, cookie_manager, http,
                   url_arg, clock, handlers>>

\* _stream_response: one turn of for line in response.iter_lines(), which the
\* generator reaches when the server asks it for the next frame
StreamLine ==
    /\ relay.state = "relaying"
    /\ relay.lines # <<>>
    /\ ~Pending
    /\ relay' = [relay EXCEPT
                    !.lines = Tail(relay.lines),
                    !.got = Append(relay.got, Head(relay.lines)),
                    !.frames = Relayed(relay.frames, Head(relay.lines))]
    /\ UNCHANGED <<cookie_store_path, cli_cookies, cookies, disk, last, start, threads,
                   backend, backend_url, cookie_manager, http,
                   url_arg, clock, handlers>>

\* the server writes the frame the generator has yielded to the client
StreamWrite ==
    /\ relay.state \in {"relaying", "error"}
    /\ Pending
    /\ relay.client = "here"
    /\ relay' = [relay EXCEPT !.delivered = @ + 1]
    /\ UNCHANGED <<cookie_store_path, cli_cookies, cookies, disk, last, start, threads,
                   backend, backend_url, cookie_manager, http,
                   url_arg, clock, handlers>>

\* the client of the streaming response closes its connection
ClientDisconnect ==
    /\ relay.state \in {"relaying", "error"}
    /\ relay.client = "here"
    /\ relay' = [relay EXCEPT !.client = "gone"]
    /\ UNCHANGED <<cookie_store_path, cli_cookies, cookies, disk, last, start, threads,
                   backend, backend_url, cookie_manager, http,
                   url_arg, clock, handlers>>

\* a server that drops the frame it could not write and goes on
WriteFails_Ignored ==
    /\ relay.state \in {"relaying", "error"}
    /\ Pending
    /\ relay.client = "gone"
    /\ relay' = [relay EXCEPT !.broken = TRUE, !.delivered = @ + 1]
    /\ UNCHANGED <<cookie_store_path, cli_cookies, cookies, disk, last, start, threads,
                   backend, backend_url, cookie_manager, http,
                   url_arg, clock, handlers>>

\* the server's write of the frame fails, the client having gone: the server
\* leaves its loop over the response
WriteFails ==
    /\ relay.state \in {"relaying", "error"}
    /\ Pending
    /\ relay.client = "gone"
    /\ relay' = [relay EXCEPT !.broken = TRUE, !.state = "aborting"]
    /\ UNCHANGED <<cookie_store_path, cli_cookies, cookies, disk, last, start, threads,
                   backend, backend_url, cookie_manager, http,
                   url_arg, clock, handlers>>

\* a generator closed by the server whose backend response stays open
Abort_NoClose ==
    /\ relay.state = "aborting"
    /\ relay' = [relay EXCEPT !.state = "cancelled"]
    /\ UNCHANGED <<cookie_store_path, cli_cookies, cookies, disk, last, start, threads,
                   backend, backend_url, cookie_manager, http,
                   url_arg, clock, handlers>>

\* the server closes the response it has left: GeneratorExit is raised at the
\* yield and the with block closes the backend's response
Abort ==
    /\ relay.state = "aborting"
    /\ relay' = [relay EXCEPT !.state = "cancelled", !.conn = "closed"]
    /\ UNCHANGED <<cookie_store_path, cli_cookies, cookies, disk, last, start, threads,
                   backend, backend_url, cookie_manager, http,
                   url_arg, clock, handlers>>

\* _stream_response: response.iter_lines() raises, the backend's connection
\* having broken before the end of its answer; the with block is left
StreamBreak ==
    /\ relay.state = "relaying"
    /\ relay.lines # <<>>
    /\ ~Pending
    /\ relay' = [relay EXCEPT !.state = "raised", !.conn = "closed"]
    /\ http' = [http EXCEPT !.fault = "read", !.raised = TRUE]
    /\ UNCHANGED <<cookie_store_path, cli_cookies, cookies, disk, last, start, threads,
                   backend, backend_url, cookie_manager, url_arg, clock, handlers>>

\* a relay that returns only once the backend has sent 'data: [DONE]'
StreamEnd_AfterDone ==
    /\ \/ relay.state = "error"
       \/ /\ relay.state = "relaying" /\ relay.lines = <<>>
          /\ \E i \in 1..Len(relay.got) : relay.got[i] = "data: [DONE]"
    /\ ~Pending
    /\ relay' = [relay EXCEPT !.state = "ended", !.conn = "closed"]
    /\ UNCHANGED <<cookie_store_path, cli_cookies, cookies, disk, last, start, threads,
                   backend, backend_url, cookie_manager, http,
                   url_arg, clock, handlers>>

\* _stream_response returns: after the error frame, or at the end of the
\* lines; the with block is left
StreamEnd ==
    /\ \/ relay.state = "error"
       \/ relay.state = "relaying" /\ relay.lines = <<>>
    /\ ~Pending
    /\ relay' = [relay EXCEPT !.state = "ended", !.conn = "closed"]
    /\ UNCHANGED <<cookie_store_path, cli_cookies, cookies, disk, last, start, threads,
                   backend, backend_url, cookie_manager, http,
                   url_arg, clock, handlers>>

\* one descriptor of _get_available_models, made at the time of the call
ModelEntry(id, owner) ==
    [id |-> id, object |-> "model", created |-> clock, owned_by |-> owner]

\* _get_available_models
GetAvailableModels ==
    IF backend = "ai-gateway"
    THEN <<ModelEntry("gpt-3.5-turbo", "openai"),
           ModelEntry("gpt-4", "openai"),
           ModelEntry("claude-3-opus", "anthropic"),
           ModelEntry("claude-3-sonnet", "anthropic"),
           ModelEntry("gemini-pro", "google")>>
    ELSE <<ModelEntry("gpt-3.5-turbo", "openai"),
           ModelEntry("gpt-4", "openai"),
           ModelEntry("claude-3", "anthropic"),
           ModelEntry("coze", "coze"),
           ModelEntry("deepseek", "deepseek"),
           ModelEntry("cursor", "cursor"),
           ModelEntry("windsurf", "windsurf"),
           ModelEntry("qodo", "qodo"),
           ModelEntry("blackbox", "blackbox"),
           ModelEntry("you", "you.com"),
           ModelEntry("grok", "xai"),
           ModelEntry("bing", "microsoft")>>

\* GET /v1/models
ListModels ==
    /\ RelayIdle
    /\ http' = [NoExchange EXCEPT
                   !.route = "models", !.status = 200,
                   !.reply = [kind |-> "json",
                              value |-> [object |-> "list", data |-> GetAvailableModels]]]
    /\ relay' = NoRelay
    /\ UNCHANGED <<cookie_store_path, cli_cookies, cookies, disk, last, start, threads,
                   backend, backend_url, cookie_manager, url_arg, clock, handlers>>

\* stores the adapter is started on
AdapterStores ==
    { EmptyDict,
      <<[key |-> "localhost:8080", val |-> <<CookieA, CookieB>>],
        [key |-> "localhost:8081", val |-> <<CookieB, CookieA>>],
        [key |-> "a.com", val |-> <<CookieB>>],
        [key |-> "", val |-> <<CookieA>>]>>,
      <<[key |-> "a.com:8443", val |-> <<CookieB, CookieA>>],
        [key |-> "a.com", val |-> <<>>],
        [key |-> "localhost", val |-> <<CookieA>>]>> }

AdapterInit ==
    /\ cookie_store_path = StorePath(<<>>)
    /\ cookies \in AdapterStores
    /\ disk = File(JsonDump(cookies))
    /\ last = Call("init", NoneVal, <<>>, <<>>, FALSE, FALSE, <<>>)
    /\ start = cookies
    /\ threads = [t \in Threads |-> Idle]
    /\ backend \in Backends
    /\ url_arg \in UrlArgs
    /\ backend_url = ResolveUrl(backend, url_arg)
    /\ clock = 0
    /\ cli_cookies = EmptyDict
    /\ handlers = <<>>
    /\ cookie_manager \in BOOLEAN
    /\ http = NoExchange
    /\ relay = NoRelay

AdapterNext ==
    \/ ListModels
    \/ \E data \in ChatData, st \in BackendStatuses, answer \in BackendBodies :
          ChatCompletions(data, st, answer)
    \/ \E data \in EmbeddingData, st \in BackendStatuses, answer \in BackendBodies :
          Embeddings(data, st, answer)
    \/ \E st \in BackendStatuses, lines \in BackendStreams : StreamOpen(st, lines)
    \/ StreamLine
    \/ StreamWrite
    \/ StreamBreak
    \/ StreamEnd

SpecAdapter == AdapterInit /\ [][AdapterNext]_vars

-----------------------------------------------------------------------------
(* Requests whose body is not a JSON object *)

\* the bodies of such requests: none, text that is not JSON, the JSON null
\* and a JSON array
RawBodies == {"<missing>", "<malformed>", "<null>", "<array>"}

\* request.json on such a body: Flask raises BadRequest when the body cannot
\* be parsed; without a body it raises or returns None, as its version has
\* it; null is None and an array is a list
RequestJson(raw) ==
    IF raw = "<malformed>" THEN {[raised |-> TRUE, value |-> NoneVal]}
    ELSE IF raw = "<missing>"
    THEN {[raised |-> TRUE, value |-> NoneVal], [raised |-> FALSE, value |-> NoneVal]}
    ELSE IF raw = "<null>" THEN {[raised |-> FALSE, value |-> NoneVal]}
    ELSE {[raised |-> FALSE, value |-> <<"text">>]}

\* the outcome of a try block left by request.json raising
BadRequest ==
    Outcome(FALSE, "", NoneVal, <<>>, 0, <<>>, "request", "400 Bad Request", <<>>)

\* the outcome of a try block left by data.get on a value that is no dict
NoGet ==
    Outcome(FALSE, "", NoneVal, <<>>, 0, <<>>, "attribute",
            "object has no attribute 'get'", <<>>)

\* POST /v1/chat/completions with such a body: data.get('stream', False) is
\* the first use of data
ChatCompletionsRaw(raw) ==
    /\ RelayIdle
    /\ \E j \in RequestJson(raw) :
          http' = Exchange("chat", raw, IF j.raised THEN BadRequest ELSE NoGet)
    /\ relay' = NoRelay
    /\ UNCHANGED <<cookie_store_path, cli_cookies, cookies, disk, last, start, threads,
                   backend, backend_url, cookie_manager, url_arg, clock, handlers>>

\* POST /v1/embeddings with such a body: with 'ai-gateway' data is posted as
\* it is, with the other backend data.get("model", ...) is its first use
EmbeddingsRaw(raw, st, answer) ==
    /\ RelayIdle
    /\ \E j \in RequestJson(raw) :
          http' = Exchange("embeddings", raw,
                           IF j.raised THEN BadRequest
                           ELSE IF backend = "ai-gateway"
                           THEN PostJson("/v1/embeddings", CookieHeader, j.value,
                                         st, answer)
                           ELSE NoGet)
    /\ relay' = NoRelay
    /\ UNCHANGED <<cookie_store_path, cli_cookies, cookies, disk, last, start, threads,
                   backend, backend_url, cookie_manager, url_arg, clock, handlers>>

InboundNext ==
    \/ \E raw \in RawBodies : ChatCompletionsRaw(raw)
    \/ \E raw \in RawBodies, st \in BackendStatuses, answer \in BackendBodies :
          EmbeddingsRaw(raw, st, answer)

SpecInbound == AdapterInit /\ [][InboundNext]_vars

-----------------------------------------------------------------------------
(* The model listing of an adapter made with any backend name, as time       *)
(* passes.                                                                   *)

\* the seconds the clock runs for
MaxClock == 3

\* the backend names an adapter is made with: OpenAIAdapter takes any string
BackendNames == Backends \cup {"my-backend"}

\* a second passes
Tick ==
    /\ clock < MaxClock
    /\ clock' = clock + 1
    /\ UNCHANGED <<cookie_store_path, cli_cookies, cookies, disk, last, start, threads,
                   backend, backend_url, cookie_manager, http, relay,
                   url_arg, handlers>>

ModelsInit ==
    /\ cookie_store_path = StorePath(<<>>)
    /\ cookies = EmptyDict
    /\ disk = File(JsonDump(cookies))
    /\ last = Call("init", NoneVal, <<>>, <<>>, FALSE, FALSE, <<>>)
    /\ start = cookies
    /\ threads = [t \in Threads |-> Idle]
    /\ backend \in BackendNames
    /\ url_arg \in UrlArgs
    /\ backend_url = ResolveUrl(backend, url_arg)
    /\ clock = 0
    /\ cli_cookies = EmptyDict
    /\ handlers = <<>>
    /\ cookie_manager \in BOOLEAN
    /\ http = NoExchange
    /\ relay = NoRelay

ModelsNext == ListModels \/ Tick

SpecModels == ModelsInit /\ [][ModelsNext]_vars

-----------------------------------------------------------------------------
(* One streaming response, from the generator's first run to its end, with a *)
(* client that may go away.                                                  *)

StreamData == {d \in ChatData : WantsStream(d)}

RelayInit ==
    /\ cookie_store_path = StorePath(<<>>)
    /\ cookies = EmptyDict
    /\ disk = File(JsonDump(cookies))
    /\ last = Call("init", NoneVal, <<>>, <<>>, FALSE, FALSE, <<>>)
    /\ start = cookies
    /\ threads = [t \in Threads |-> Idle]
    /\ backend \in Backends
    /\ url_arg = NoUrl
    /\ backend_url = ResolveUrl(backend, url_arg)
    /\ clock = 0
    /\ cli_cookies = EmptyDict
    /\ handlers = <<>>
    /\ cookie_manager = TRUE
    /\ \E data \in StreamData :
          /\ http = StreamAccepted(data)
          /\ relay = Generator(data)

RelayNext ==
    \/ \E st \in BackendStatuses, lines \in BackendStreams : StreamOpen(st, lines)
    \/ StreamLine
    \/ StreamWrite
    \/ ClientDisconnect
    \/ WriteFails
    \/ Abort
    \/ StreamBreak
    \/ StreamEnd

SpecRelay == RelayInit /\ [][RelayNext]_vars

\* the server thread keeps running the generator and writing its frames: a
\* step of the relay that stays possible is taken. The backend's failures and
\* the client's going away are not owed.
RelayFairness ==
    /\ WF_vars(\E st \in BackendStatuses, lines \in BackendStreams : StreamOpen(st, lines))
    /\ WF_vars(StreamLine)
    /\ WF_vars(StreamWrite)
    /\ WF_vars(WriteFails)
    /\ WF_vars(Abort)
    /\ WF_vars(StreamEnd)

SpecRelayFair == SpecRelay /\ RelayFairness

-----------------------------------------------------------------------------
(* Requests handled in parallel: app.run serves each request on a thread of  *)
(* its own. request.json, the body posted, the backend's response and the    *)
(* generator are locals of the handler; backend, backend_url and the cookie  *)
(* manager are read and never written.                                       *)

Workers == {1, 2}

\* the models named by the requests handled in parallel
ParModels == {"gpt-4", "x"}

ParData ==
    {[model |-> m, messages |-> "hi"] : m \in ParModels}
        \cup {[model |-> m, messages |-> "hi", stream |-> TRUE] : m \in ParModels}

\* a server thread with no request
IdleHandler ==
    [pc |-> "idle", data |-> <<>>, body |-> <<>>, status |-> 0,
     lines |-> <<>>, frames |-> <<>>, reply |-> [kind |-> "none"]]

\* what the backend answers to a call that posts body: a chat body and a
\* stream for the model the body names
Served(body) ==
    <<"{", Quote("object"), ":", Quote("chat.completion"), ",",
           Quote("id"), ":", Quote("x"), ",", Quote("model"), ":", Quote(body.model), "}">>

ServedStream(body) == <<"data: " \o body.model, "", "data: [DONE]", "">>

\* a handler that reads the request of the lowest thread that has one
RequestOf_First(h) ==
    handlers[CHOOSE w \in Workers :
                /\ handlers[w].pc # "idle"
                /\ \A v \in Workers : handlers[v].pc # "idle" => w <= v].data

\* data = request.json, the request of the handler's own thread
RequestOf(h) == handlers[h].data

\* a request reaches the route on thread h
Receive(h, data) ==
    /\ handlers[h].pc = "idle"
    /\ handlers' = [handlers EXCEPT ![h] = [IdleHandler EXCEPT !.pc = "received",
                                                              !.data = data]]
    /\ UNCHANGED <<cookie_store_path, cli_cookies, cookies, disk, last, start, threads,
                   backend, backend_url, cookie_manager, http, relay, url_arg, clock>>

\* the handler prepares its backend request and posts it
Post(h) ==
    /\ handlers[h].pc = "received"
    /\ LET data == RequestOf(h)
           body == IF WantsStream(data) THEN StreamRequest(data)
                   ELSE ProcessCompletionRequest(data, 200, <<>>).body
       IN  handlers' = [handlers EXCEPT ![h].pc = "posted", ![h].body = body]
    /\ UNCHANGED <<cookie_store_path, cli_cookies, cookies, disk, last, start, threads,
                   backend, backend_url, cookie_manager, http, relay, url_arg, clock>>

\* the backend answers the handler's call: the route returns its response, or
\* the generator is at its first yield or at its loop
Answer(h, st) ==
    /\ handlers[h].pc = "posted"
    /\ LET body == handlers[h].body
       IN  IF WantsStream(body)
           THEN LET r == Opened(NoRelay, st, ServedStream(body))
                IN  handlers' = [handlers EXCEPT
                        ![h].pc = IF r.state = "relaying" THEN "relaying" ELSE "done",
                        ![h].status = 200,
                        ![h].lines = r.lines,
                        ![h].frames = r.frames,
                        ![h].reply = [kind |-> "event-stream"]]
           ELSE LET x == Exchange("chat", handlers[h].data,
                                  PostJson("/v1/chat/completions", CookieHeader,
                                           body, st, Served(body)))
                IN  handlers' = [handlers EXCEPT
                        ![h].pc = "done", ![h].status = x.status, ![h].reply = x.reply]
    /\ UNCHANGED <<cookie_store_path, cli_cookies, cookies, disk, last, start, threads,
                   backend, backend_url, cookie_manager, http, relay, url_arg, clock>>

\* one turn of the loop of the generator of thread h
Line(h) ==
    /\ handlers[h].pc = "relaying"
    /\ handlers[h].lines # <<>>
    /\ handlers' = [handlers EXCEPT
                       ![h].lines = Tail(@),
                       ![h].frames = Relayed(@, Head(handlers[h].lines))]
    /\ UNCHANGED <<cookie_store_path, cli_cookies, cookies, disk, last, start, threads,
                   backend, backend_url, cookie_manager, http, relay, url_arg, clock>>

\* the backend's stream is over and the generator of thread h returns
End(h) ==
    /\ handlers[h].pc = "relaying"
    /\ handlers[h].lines = <<>>
    /\ handlers' = [handlers EXCEPT ![h].pc = "done"]
    /\ UNCHANGED <<cookie_store_path, cli_cookies, cookies, disk, last, start, threads,
                   backend, backend_url, cookie_manager, http, relay, url_arg, clock>>

\* the response is with the client and the thread is free
Finish(h) ==
    /\ handlers[h].pc = "done"
    /\ handlers' = [handlers EXCEPT ![h] = IdleHandler]
    /\ UNCHANGED <<cookie_store_path, cli_cookies, cookies, disk, last, start, threads,
                   backend, backend_url, cookie_manager, http, relay, url_arg, clock>>

ParInit ==
    /\ cookie_store_path = StorePath(<<>>)
    /\ cookies \in AdapterStores
    /\ disk = File(JsonDump(cookies))
    /\ last = Call("init", NoneVal, <<>>, <<>>, FALSE, FALSE, <<>>)
    /\ start = cookies
    /\ threads = [t \in Threads |-> Idle]
    /\ backend \in Backends
    /\ url_arg = NoUrl
    /\ backend_url = ResolveUrl(backend, url_arg)
    /\ cookie_manager = TRUE
    /\ clock = 0
    /\ cli_cookies = EmptyDict
    /\ http = NoExchange
    /\ relay = NoRelay
    /\ handlers = [h \in Workers |-> IdleHandler]

ParNext ==
    \E h \in Workers :
        \/ \E data \in ParData : Receive(h, data)
        \/ Post(h)
        \/ \E st \in {200, 503} : Answer(h, st)
        \/ Line(h)
        \/ End(h)
        \/ Finish(h)

SpecPar == ParInit /\ [][ParNext]_vars

-----------------------------------------------------------------------------
(* The cookie store: properties *)

Mutating == last.op \in {"add", "clear"}

\* a fresh CookieManager on the same store path
Fresh == LoadCookies(cookie_store_path, disk).value

\* C1: once add_cookies(D, C) has returned, a fresh CookieManager on the same
\* store path returns exactly C for D.
C1_RoundTrip ==
    (last.op = "add" /\ ~last.raised)
        => GetCookiesForDomain(Fresh, last.domain).value = last.arg

\* C2: after add_cookies or clear_cookies has returned, the persisted document
\* is a JSON document equal to the in-memory mapping.
C2_DocumentEqualsMemory ==
    (Mutating /\ ~last.raised)
        => /\ disk.kind = "file"
           /\ JsonLoad(disk.data).ok
           /\ DictEq(JsonLoad(disk.data).val, cookies)

\* C3: clear_cookies(D) with a domain D removes D's entry and leaves every
\* other domain's cookies as they were; clear_cookies(None) leaves no domain.
C3_ClearOnlyThatDomain ==
    [][last'.op = "clear" =>
         IF last'.domain = NoneVal
         THEN cookies' = EmptyDict
         ELSE /\ ~DictHas(cookies', last'.domain)
              /\ \A e \in Domains \ {last'.domain} :
                     GetCookiesForDomain(cookies', e) = GetCookiesForDomain(cookies, e)]_vars

KeysDistinct(d) == \A i, j \in 1..Len(d) : d[i].key = d[j].key => i = j

\* C5: the store holds at most one cookie list per domain key, keys compared as
\* exact strings, and add_cookies(D, C2) leaves exactly C2 under D whatever D
\* held before, and leaves every other key (also one differing only in case)
\* as it was.
C5_ReplaceNotMerge ==
    /\ [](KeysDistinct(cookies)
            /\ (last.op = "add" =>
                   /\ DictHas(cookies, last.domain)
                   /\ DictGet(cookies, last.domain, <<>>) = last.arg))
    /\ [][last'.op = "add" =>
            \A e \in Domains \ {last'.domain} :
                /\ DictHas(cookies', e) = DictHas(cookies, e)
                /\ DictGet(cookies', e, <<>>) = DictGet(cookies, e, <<>>)]_vars

C5_Witness ==
    /\ last.op = "add"
    /\ last.domain = "a.com"
    /\ last.prior = <<CookieA, CookieB>>
    /\ last.arg = <<CookieB, CookieA>>
    /\ DictGet(cookies, "A.com", <<>>) = <<CookieA>>

\* C6: when writing the store document fails during add_cookies or
\* clear_cookies, the call raises to its caller.
C6_WriteFailurePropagates ==
    (Mutating /\ last.failed) => last.raised

\* what a call does to the dict when it runs alone
Applied(th, d) ==
    IF th.op = "add" THEN DictSet(d, th.domain, th.arg)
    ELSE IF ~Truthy(th.domain) THEN EmptyDict
    ELSE IF DictHas(d, th.domain) THEN DictDel(d, th.domain)
    ELSE d

AllDone == \A t \in Threads : threads[t].pc = "done"

\* C7: whenever two concurrent add_cookies/clear_cookies calls have both
\* returned, the persisted document is well-formed JSON and holds the dict that
\* results from applying the two calls one after the other, in some order.
C7_WritesSerialized ==
    AllDone =>
        /\ disk.kind = "file"
        /\ JsonLoad(disk.data).ok
        /\ \E t \in Threads : \E u \in Threads \ {t} :
               DictEq(JsonLoad(disk.data).val,
                      Applied(threads[u], Applied(threads[t], start)))

Unusable(d) == d.kind \in {"missing", "dir"} \/ ~JsonLoad(d.data).ok

\* C8: constructing a CookieManager never raises, and when the store document
\* is missing, unreadable or corrupt the manager starts with an empty store.
C8_LoadFailsSoft ==
    last.op = "init" => /\ ~last.raised
                        /\ Unusable(disk) => cookies = EmptyDict

C8_Witness ==
    /\ last.op = "init"
    /\ disk.kind = "dir"
    /\ last.failed
    /\ cookies = EmptyDict

Malformed(d) == d.kind = "file" /\ ~JsonLoad(d.data).ok

\* C9 as stated: loading a document that exists but holds malformed JSON fails
\* with an error that reaches the caller.
C9_MalformedRaises ==
    (last.op = "init" /\ Malformed(disk)) => last.raised

\* C9 as amended: loading a document that exists but holds malformed JSON does
\* not fail: the error is logged and the manager starts with an empty store.
C9_MalformedDegrades ==
    (last.op = "init" /\ Malformed(disk))
        => ~last.raised /\ last.failed /\ cookies = EmptyDict

C9_Witness ==
    /\ last.op = "init"
    /\ disk = File(Truncated(JsonDump(StoredDict)))
    /\ last.failed
    /\ cookies = EmptyDict

-----------------------------------------------------------------------------
(* The adapter: properties *)

\* the cookies stored for the backend's domain
StoredForBackend == DictGet(cookies, ExtractDomain(backend_url), <<>>)

\* 'name=value' of each cookie joined by '; ', written out list by list
ExpectedHeader(cs) ==
    CASE cs = <<CookieA>> -> "a=1"
      [] cs = <<CookieB>> -> "b=2"
      [] cs = <<CookieA, CookieB>> -> "a=1; b=2"
      [] cs = <<CookieB, CookieA>> -> "b=2; a=1"
      [] OTHER -> NoneVal

\* C10: whenever a request has gone out to the backend (chat, streaming chat or
\* embeddings) from an adapter with a cookie store that holds a non-empty list
\* for the backend's domain, its Cookie header is 'name=value' of each stored
\* cookie joined by '; ' in storage order.
C10_CookieHeader ==
    (http.sent /\ cookie_manager /\ StoredForBackend # <<>>)
        => http.cookie = ExpectedHeader(StoredForBackend)

C10_Witness ==
    /\ http.sent
    /\ relay.state = "relaying"
    /\ StoredForBackend = <<CookieA, CookieB>>
    /\ http.cookie = "a=1; b=2"

\* the handler got as far as requests.post
Posted == http.path # ""

NoCredentials == ~cookie_manager \/ StoredForBackend = <<>>

\* C11: when no store is configured, or the store has no cookies for the
\* backend's domain, the outbound request has no Cookie header and is
\* forwarded all the same: when it does not reach the backend, the cause is
\* the URL or the connection.
C11_NoCredentialsNoHeader ==
    (Posted /\ NoCredentials)
        => /\ http.cookie = NoneVal
           /\ http.sent \/ http.fault \in {"url", "connect"}

C11_Witness ==
    /\ cookie_manager
    /\ cookies # EmptyDict
    /\ DictHas(cookies, ExtractDomain(backend_url))
    /\ StoredForBackend = <<>>
    /\ http.sent
    /\ http.cookie = NoneVal
    /\ http.status = 200

\* the model names a request may carry: those of the requests, those of the
\* table and those the table maps to
ModelNames ==
    Models \cup DictKeys(ModelMapping) \cup {ModelMapping[i].val : i \in 1..Len(ModelMapping)}

\* the model of a request body, with the default of the handlers
ModelOf(data) == Get(data, "model", "gpt-3.5-turbo")

\* C12: the remapping maps a name that is not in the table to itself, mapping
\* twice is mapping once, and the model sent to a chatgpt-adapter backend is
\* the one name the inbound model maps to.
C12_RemapTotalIdempotent ==
    /\ \A m \in ModelNames :
          /\ ~DictHas(ModelMapping, m) => MapModelForChatgptAdapter(m) = m
          /\ MapModelForChatgptAdapter(MapModelForChatgptAdapter(m))
                = MapModelForChatgptAdapter(m)
    /\ (backend = "chatgpt-adapter" /\ http.path = "/v1/chat/completions")
          => /\ http.body.model = MapModelForChatgptAdapter(ModelOf(http.data))
             /\ MapModelForChatgptAdapter(http.body.model) = http.body.model

C12_Witness ==
    /\ backend = "chatgpt-adapter"
    /\ http.sent
    /\ ModelOf(http.data) = "claude-3-opus"
    /\ http.body.model = "claude-3"

\* C13: with backend 'ai-gateway' the model forwarded to the backend is the
\* model of the inbound request (none when the request has none), on the
\* non-streaming and on the streaming path.
C13_AiGatewayKeepsModel ==
    (backend = "ai-gateway" /\ http.path = "/v1/chat/completions")
        => Get(http.body, "model", NoneVal) = Get(http.data, "model", NoneVal)

C13_Witness ==
    /\ backend = "ai-gateway"
    /\ http.sent
    /\ http.reply.kind = "json"
    /\ Get(http.data, "model", NoneVal) = "claude-3-opus"
    /\ Get(http.body, "model", NoneVal) = "claude-3-opus"

\* the backend's answer to a non-streaming request, and the body returned
Answered == ResponseJson(http.answer)

\* the JSON body returned has the fields and values of the backend's body
PassedThrough ==
    /\ http.status = 200
    /\ http.reply.kind = "json"
    /\ ResponseJson(http.reply.text).ok
    /\ DictEq(ResponseJson(http.reply.text).val, Answered.val)

\* C14: a non-streaming chat request whose backend answers 200 with a
\* well-formed body is answered 200 with a body of the same fields and values.
C14_SuccessPassedThrough ==
    (http.route = "chat" /\ http.upstream = 200 /\ Answered.ok) => PassedThrough

C14_Witness ==
    /\ http.route = "chat"
    /\ http.upstream = 200
    /\ http.answer = <<"{", Quote("object"), ":", Quote("chat.completion"), ",",
                            Quote("id"), ":", Quote("x"), ",",
                            Quote("model"), ":", Quote("gpt-4"), "}">>
    /\ http.status = 200
    /\ http.reply.text = <<"{", Quote("id"), ":", Quote("x"), ",",
                                Quote("model"), ":", Quote("gpt-4"), ",",
                                Quote("object"), ":", Quote("chat.completion"), "}">>

Is2xx(st) == st \in 200..299

\* C15: a backend answer of status 2xx (with a JSON body) is passed through,
\* and the backend error is raised exactly when the status is not 2xx.
C15_StatusClass ==
    http.upstream # 0
        => /\ (Is2xx(http.upstream) /\ Answered.ok) => PassedThrough
           /\ http.fault = "status" <=> ~Is2xx(http.upstream)

\* the status of the backend's answer, on either path
UpstreamStatus == IF http.reply.kind = "event-stream" THEN relay.status ELSE http.upstream

ErrorEnvelope ==
    /\ http.status = 500
    /\ http.reply.kind = "error"
    /\ http.reply.type = "server_error"
    /\ http.reply.code = 500

\* C16 as stated: whenever the backend has answered a forwarded chat or
\* embeddings request with 503, the response has status 500 and the error
\* envelope as its body.
C16_Backend503 ==
    (http.sent /\ UpstreamStatus = 503) => ErrorEnvelope

\* C16 as amended: whenever the backend has answered a forwarded non-streaming
\* chat request or a forwarded embeddings request with 503, the response has
\* status 500 and the error envelope as its body, the message naming the
\* backend's status.
C16_Backend503NonStreaming ==
    (http.sent /\ http.reply.kind # "event-stream" /\ http.upstream = 503)
        => ErrorEnvelope /\ http.reply.message = "Backend error: 503"

C16_Witness ==
    /\ http.route = "embeddings"
    /\ http.sent
    /\ http.upstream = 503
    /\ http.status = 500
    /\ http.reply = [kind |-> "error", message |-> "Backend error: 503",
                     type |-> "server_error", code |-> 500]

\* C17: every failure raised while a request is translated or relayed, also
\* one raised after the streaming response has started, is caught by the route
\* and answered with the error envelope.
C17_FailuresCaught ==
    http.fault # "none" => ~http.raised /\ ErrorEnvelope

\* the frames of the non-empty lines among ls, in their order
Framed(ls) ==
    LET ne == SelectSeq(ls, LAMBDA l : l # "")
    IN  [i \in 1..Len(ne) |-> ne[i] \o "\n\n"]

HiStream ==
    <<"data: {\"choices\":[{\"delta\":{\"content\":\"Hi\"}}]}", "", "data: [DONE]", "">>

\* C18: at every point of a relay of a 200 answer the frames yielded are the
\* non-empty lines taken from the backend so far, in their order, each followed
\* by a blank line; the relay ends only when the backend has no line left; and
\* the two frames of the example arrive as two frames in that order.
C18_FramesInOrder ==
    (relay.state \in {"relaying", "ended"} /\ relay.status = 200)
        => /\ relay.frames = Framed(relay.got)
           /\ relay.state = "ended" => relay.lines = <<>>
           /\ relay.got = HiStream
                 => relay.frames =
                      <<"data: {\"choices\":[{\"delta\":{\"content\":\"Hi\"}}]}\n\n",
                        "data: [DONE]\n\n">>

C18_Witness ==
    /\ relay.state = "ended"
    /\ relay.status = 200
    /\ relay.got = HiStream
    /\ Len(relay.frames) = 2
    /\ relay.frames[2] = "data: [DONE]\n\n"

\* 'data: <payload>' and a blank line, for the payloads of the model
IsSseFrame(f) ==
    \/ \E p \in Payloads : f = "data: " \o p \o "\n\n"
    \/ \E st \in BackendStatuses : f = ErrorFrame(st)

\* C19: every frame the streaming path has yielded is 'data: <payload>'
\* followed by a blank line.
C19_FramesAreSse ==
    \A i \in 1..Len(relay.frames) : IsSseFrame(relay.frames[i])

\* C20: when the backend answers the streaming request with a non-2xx status,
\* the relay yields one frame, the error payload naming that status, takes no
\* line from the backend, and once that frame is written it ends with that
\* one frame.
C20_OpenFailure ==
    /\ []((relay.state \in {"error", "ended"} /\ ~Is2xx(relay.status))
            => /\ relay.frames = <<ErrorFrame(relay.status)>>
               /\ relay.got = <<>>)
    /\ [][relay.state = "error"
            => /\ relay'.state \in {"error", "ended", "aborting"}
               /\ relay'.frames = relay.frames
               /\ relay'.got = relay.got
               /\ relay'.state = "ended" => ~Pending]_vars

C20_Witness ==
    /\ relay.state = "ended"
    /\ relay.status = 503
    /\ relay.frames = <<"data: {\"error\": {\"message\": \"Backend error: 503\"}}\n\n">>
    /\ relay.got = <<>>

\* C23: an embeddings request to an adapter whose backend is not 'ai-gateway'
\* is answered 200 with one embedding of exactly 1536 entries, all zero, and
\* with prompt_tokens and total_tokens 0, and nothing is sent to the backend.
C23_MockEmbedding ==
    (http.route = "embeddings" /\ backend # "ai-gateway")
        => /\ http.status = 200
           /\ ~http.sent /\ ~Posted
           /\ http.reply.kind = "json"
           /\ Len(http.reply.value.data) = 1
           /\ LET e == http.reply.value.data[1].embedding
              IN  Len(e) = 1536 /\ \A i \in 1..Len(e) : e[i] = 0
           /\ http.reply.value.usage = [prompt_tokens |-> 0, total_tokens |-> 0]

C23_Witness ==
    /\ http.route = "embeddings"
    /\ backend = "chatgpt-adapter"
    /\ http.status = 200
    /\ http.reply.value.model = "my-model"
    /\ Len(http.reply.value.data[1].embedding) = 1536

\* the default URL of each backend
DefaultUrl ==
    IF backend = "ai-gateway" THEN Url("http", "localhost", "8080")
    ELSE Url("http", "localhost", "8081")

\* C26: every request that goes out to the backend goes to the URL the adapter
\* was given when it was given one, and to the backend's default URL only when
\* it was given none.
C26_TargetResolution ==
    Posted => http.target = (IF url_arg # NoUrl THEN url_arg ELSE DefaultUrl)

C26_Witness ==
    /\ url_arg = Url("https", "a.com", "8443")
    /\ backend = "ai-gateway"
    /\ http.sent
    /\ http.target = Url("https", "a.com", "8443")

\* the request went down the streaming path
Streaming == http.reply.kind = "event-stream"

ChatPosted == http.route = "chat" /\ Posted

\* C29: the body sent to the backend for a chat request has the fields of the
\* inbound body, with the same values except for 'model' and, on the streaming
\* path, 'stream'; no field is added.
C29_BodyForwarded ==
    ChatPosted
        => /\ DOMAIN http.body = DOMAIN http.data
           /\ \A f \in DOMAIN http.data :
                  f \notin {"model", "stream"} => http.body[f] = http.data[f]
           /\ (~Streaming /\ "stream" \in DOMAIN http.data)
                  => http.body.stream = http.data.stream

\* C30: a chat request is answered with an event stream exactly when its
\* 'stream' field is true, absent counting as false, and the body sent to the
\* backend on the streaming path has 'stream' true.
C30_StreamFlag ==
    http.route = "chat"
        => /\ Streaming <=> Get(http.data, "stream", FALSE) = TRUE
           /\ (Streaming /\ Posted)
                  => "stream" \in DOMAIN http.body /\ http.body.stream = TRUE

C30_Witness ==
    /\ http.route = "chat"
    /\ Streaming
    /\ Posted
    /\ http.data = [messages |-> "hi", stream |-> TRUE]
    /\ http.body.stream = TRUE

Has(seq, x) == \E i \in 1..Len(seq) : seq[i] = x

\* the generator has stopped
RelayOver == relay.state \in {"ended", "raised", "cancelled"}

\* C21: a relay of a backend stream of finitely many lines comes to its end,
\* whether or not the backend sent 'data: [DONE]', and a '[DONE]' frame is
\* among the frames only when the backend sent that line.
C21_RelayEnds ==
    /\ [](Has(relay.frames, "data: [DONE]\n\n") => Has(relay.got, "data: [DONE]"))
    /\ (relay.state = "relaying") ~> RelayOver
    /\ (relay.state = "relaying" /\ relay.client = "here")
          ~> (relay.state \in {"ended", "raised"} \/ relay.client = "gone")

C21_Witness ==
    /\ relay.state = "ended"
    /\ relay.status = 200
    /\ relay.got = <<"data: {\"choices\":[]}">>
    /\ relay.frames = <<"data: {\"choices\":[]}\n\n">>
    /\ relay.delivered = 1

\* C22: once a write to the client has failed, the relay takes no further line
\* from the backend, and the connection to the backend comes to be closed,
\* with lines of the backend left unread if it had more to send; a client's
\* going away in mid-stream always leads to the closing of that connection.
C22_Cancellation ==
    /\ [][relay.broken => relay'.got = relay.got /\ relay'.lines = relay.lines]_vars
    /\ relay.broken ~> (relay.state = "cancelled" /\ relay.conn = "closed")
    /\ (relay.client = "gone" /\ relay.conn = "open") ~> relay.conn = "closed"

C22_Witness ==
    /\ relay.broken
    /\ relay.state = "cancelled"
    /\ relay.conn = "closed"
    /\ relay.lines # <<>>
    /\ \E i \in 1..Len(relay.lines) : relay.lines[i] # ""

\* C28: at every point of a stream at most one frame is with the server and
\* not yet written to the client, at most one non-empty line taken from the
\* backend has not reached the client, and a line is taken from the backend
\* only when every frame yielded before has been written.
C28_Backpressure ==
    /\ [](/\ Len(relay.frames) - relay.delivered \in {0, 1}
          /\ relay.status = 200
                => Len(SelectSeq(relay.got, LAMBDA l : l # "")) - relay.delivered
                       \in {0, 1})
    /\ [][relay'.got # relay.got => Len(relay.frames) = relay.delivered]_vars

C28_Witness ==
    /\ relay.state = "relaying"
    /\ Pending
    /\ relay.delivered = 1
    /\ relay.lines # <<>>

\* C24: the model listing of an adapter whose backend name is not one of the
\* recognized backends is {"object": "list", "data": []}, with status 200.
C24_UnknownBackendListsNothing ==
    (http.route = "models" /\ backend \notin {"ai-gateway", "chatgpt-adapter"})
        => /\ http.status = 200
           /\ http.reply.value = [object |-> "list", data |-> <<>>]

\* the cases in which there is nothing to import: the browser is not one of
\* the four, its profile or its cookie file is not found, the file or the
\* script's output cannot be read, the script fails, the extraction module is
\* missing, or no row matches the domain
NothingToImport(a, domain) ==
    \/ Lower(a.browser) \notin {"firefox", "chrome", "edge", "safari"}
    \/ ~a.env.profile
    \/ ~a.env.file
    \/ ~a.env.readable
    \/ a.bridge /\ a.env.returncode # 0
    \/ ~a.bridge /\ ~a.env.module
    \/ \A i \in 1..Len(a.env.rows) : ~Contains(a.env.rows[i].host, domain)

\* C25: import_from_browser never raises to its caller, and returns the empty
\* list in each of the cases in which there is nothing to import.
C25_ImportNeverFails ==
    last.op = "import"
        => /\ ~last.raised
           /\ NothingToImport(last.arg, last.domain) => last.result = <<>>

C25_Witness ==
    /\ last.op = "import"
    /\ ~last.arg.bridge
    /\ ~last.arg.env.module
    /\ last.domain = "a.com"
    /\ ~last.raised
    /\ last.result = <<>>
    /\ cookies # EmptyDict

\* what the client of thread h is to receive for its request when the
\* backend answers 200: the backend's body for the request's model, with the
\* keys sorted
OwnReply(h) ==
    [kind |-> "json",
     text |-> <<"{", Quote("id"), ":", Quote("x"), ",",
                     Quote("model"), ":", Quote(handlers[h].data.model), ",",
                     Quote("object"), ":", Quote("chat.completion"), "}">>]

\* the frames of the backend's stream for the request of thread h
OwnFrames(h) == <<"data: " \o handlers[h].data.model \o "\n\n", "data: [DONE]\n\n">>

\* the request of thread h is at the backend, or answered
Called(h) == handlers[h].pc \in {"posted", "relaying", "done"}

\* C27: with requests and streaming relays handled in parallel, each outbound
\* request carries the model and the fields of its own inbound request, each
\* client receives the response or the frames of its own backend call, and a
\* step of one handler changes nothing of another.
C27_Isolation ==
    /\ [](\A h \in Workers :
            /\ Called(h)
                  => /\ handlers[h].body.model = handlers[h].data.model
                     /\ handlers[h].body.messages = handlers[h].data.messages
                     /\ ("stream" \in DOMAIN handlers[h].body)
                           = ("stream" \in DOMAIN handlers[h].data)
            /\ handlers[h].pc = "done" /\ handlers[h].reply.kind = "json"
                  => handlers[h].reply = OwnReply(h)
            /\ handlers[h].reply.kind = "event-stream" /\ handlers[h].lines # <<>>
                  => \E n \in 0..2 : handlers[h].frames = SubSeq(OwnFrames(h), 1, n)
            /\ (/\ handlers[h].pc = "done"
                /\ handlers[h].reply.kind = "event-stream"
                /\ handlers[h].lines = <<>>)
                  => handlers[h].frames \in {OwnFrames(h), <<ErrorFrame(503)>>})
    /\ [][\A h, g \in Workers :
            h # g /\ handlers'[g] # handlers[g] => handlers'[h] = handlers[h]]_vars

C27_Witness ==
    /\ handlers[1].pc = "done"
    /\ handlers[2].pc = "done"
    /\ handlers[1].data.model = "gpt-4"
    /\ handlers[2].data.model = "x"
    /\ handlers[1].reply = OwnReply(1)
    /\ handlers[2].frames = OwnFrames(2)

\* the cookies stored under the host name of the backend's base URL
StoredForHost == DictGet(cookies, backend_url.host, <<>>)

\* C31: the cookies serialized into the Cookie header of an outbound request
\* are those stored under the host name of the backend's base URL, whether
\* or not the URL names a port.
C31_KeyIsHost ==
    (Posted /\ cookie_manager)
        => http.cookie = IF StoredForHost # <<>> THEN ExpectedHeader(StoredForHost)
                         ELSE NoneVal

\* C32: any two model listings of one adapter are identical, the 'created'
\* value of each descriptor included.
C32_RegistryImmutable ==
    [][(http.route = "models" /\ http'.route = "models") => http'.reply = http.reply]_vars

\* C33: after the first add_cookies or clear_cookies a document is persisted
\* at the store path, a bare file name included, unless the path is taken by
\* a directory.
C33_FirstWritePersists ==
    (Mutating /\ disk.kind # "dir") => disk.kind = "file"

\* C34: whatever requests have been handled (listing, chat, streaming chat,
\* embeddings, answered or failed), the store in memory and its document are
\* those the adapter was started on.
C34_ServingReadsOnly ==
    http.route # "none" => (cookies = start /\ disk = File(JsonDump(start)))

C34_Witness ==
    /\ relay.state = "ended"
    /\ relay.frames # <<>>
    /\ http.route = "chat"
    /\ http.cookie = "a=1; b=2"
    /\ cookies = start
    /\ disk = File(JsonDump(start))

\* an import_from_browser has just returned
Imports == last'.op = "import" /\ last' # last

\* C35: an import_from_browser that extracted nothing, or failed, leaves the
\* store in memory and its document as they were; one that extracted a
\* non-empty C makes C the cookies of the domain and leaves the other domains
\* as they were.
C35_ImportFrame ==
    [][Imports
          => IF last'.result = <<>>
             THEN cookies' = cookies /\ disk' = disk
             ELSE /\ DictGet(cookies', last'.domain, <<>>) = last'.result
                  /\ \A k \in Keys \ {last'.domain} :
                        /\ DictHas(cookies', k) = DictHas(cookies, k)
                        /\ DictGet(cookies', k, <<>>) = DictGet(cookies, k, <<>>)]_vars

C35_Witness ==
    /\ last.op = "import"
    /\ last.result = <<>>
    /\ last.domain = "a.com"
    /\ last.prior # <<>>
    /\ DictGet(cookies, "a.com", <<>>) = last.prior

\* C36: a relay that is over, by the end of the backend's stream, after the
\* error frame of a refused open, by a failure while reading or by the
\* client's cancellation, has no open backend connection.
C36_EndedMeansClosed ==
    relay.state \in {"ended", "raised", "cancelled"} => relay.conn # "open"

C36_Witness ==
    /\ relay.state = "ended"
    /\ relay.status = 503
    /\ relay.delivered = 1
    /\ relay.conn = "closed"

\* C37: a chat or embeddings request whose body is missing, is not JSON or is
\* not a JSON object is answered with status 500 and the error envelope, and
\* nothing is posted to the backend.
C37_BadBodyRejected ==
    (http.route \in {"chat", "embeddings"} /\ http.data \in RawBodies)
        => /\ ErrorEnvelope
           /\ ~Posted
           /\ ~http.sent

\* a call on the server's manager, or on the command's, has just returned
ServerCall == last' # last /\ last'.op \in {"init", "add", "clear", "get"}
CliCall == last' # last /\ last'.op \in {"cli-init", "cli-add", "cli-clear", "cli-get"}

\* C38: of two CookieManagers on one store path, each answers
\* get_cookies_for_domain from its own dict, which the calls on the other
\* never change, and each add_cookies or clear_cookies that writes makes the
\* document the dump of the caller's own dict, whatever the other had
\* persisted.
C38_ReadOnceAtConstruction ==
    /\ [](/\ last.op = "get" => last.result = DictGet(cookies, last.domain, <<>>)
          /\ last.op = "cli-get" => last.result = DictGet(cli_cookies, last.domain, <<>>)
          /\ (last.op \in {"add", "clear"} /\ ~last.failed)
                => disk = File(JsonDump(cookies))
          /\ (last.op \in {"cli-add", "cli-clear"} /\ ~last.failed)
                => disk = File(JsonDump(cli_cookies)))
    /\ [][/\ CliCall => cookies' = cookies
          /\ ServerCall => cli_cookies' = cli_cookies]_vars

\* the command has persisted cookies for a.com that the server's manager does
\* not return
C38_Witness ==
    /\ last.op = "get"
    /\ last.domain = "a.com"
    /\ last.result = <<>>
    /\ DictGet(LoadCookies(cookie_store_path, disk).value, "a.com", <<>>) # <<>>
    /\ DictGet(cli_cookies, "a.com", <<>>) # <<>>

====
